---- MODULE Spec2Model ----
(***************************************************************************)
(* Model of the MLE / X.AI foreground-application usage tracker:           *)
(*   - the application monitor loop   (mle/core/monitor/usage/application) *)
(*   - get_active_window, split_time_spent (.../usage/app_details)         *)
(*   - the CSV writers update_data (mle/utils/write) and write_data        *)
(*     (xai/utils/misc)                                                    *)
(*   - BabyMonitorProtocol: _time_spent, _app_name, _handle_info, activate *)
(*     (xai/protocols)                                                     *)
(*   - SilverLiningProtocol.activate (xai/protocols)                       *)
(*   - the tracker service (mle/core/tracker/run)                          *)
(*   - the metaclass Neo (xai/utils/misc)                                  *)
(* Time is counted in half seconds since 00:00:00 of day 0, so that the    *)
(* truncation done by now() and strftime('%H:%M:%S') is visible.           *)
(***************************************************************************)
EXTENDS Integers, Sequences, FiniteSets, TLC

VARIABLES
  clock,            \* wall clock, in half seconds
  pc,               \* position of the monitor inside application.py
  active,           \* <<active_window, active_app, active_exe, active_user>>
  previous_window, previous_app, previous_exe, previous_user,
  start_time, end_time, usage,
  day_read,         \* the datetime.now() of line 59 (seconds)
  timestamp,        \* line 60 / 63
  guard_read,       \* the datetime.now() of line 69 (seconds)
  raised,           \* exception the current poll has caught or is propagating
  files,            \* directory symlinks.usage: day of the file name -> lines
  log_tail, toast_tail,   \* last log record and last toast
  pre,              \* snapshot taken when a poll begins (history)
  dropped,          \* intervals lost to a PermissionError (history)
  polls, ticks, runs,   \* counters bounding a run
  csv_mle, csv_xai, \* one path written by update_data, one by write_data
  appends_mle, appends_xai, denials,
  duration, split,  \* input and result of split_time_spent
  time_spent,       \* what self._time_spent makes of the same input
  self_act,         \* BabyMonitorProtocol: self._act, what _handle_info gave
  self_hnd, self_app, self_exe, self_usr,   \* self._hnd, _app, _exe, _usr
  self_inf,         \* self._inf, kept between calls of _app_name
  lookup,           \* how the last GetFileVersionInfo lookup ended (history)
  self_url,         \* self._url; self._dmn is its domain
  act_url,          \* the local act_url of activate; act_dmn is its domain
  window,           \* get_active_window: the foreground window of lines 53-55
  alive,            \* whether the process of that window is still there
  next_update_time, \* SilverLiningProtocol.activate: when the next call is due
  attempts,         \* calls of the weather API made so far
  last_attempt, prev_attempt,  \* update_time of the last two calls (history)
  csv_day,          \* tracker/run.py: the day in the name of `file`
  instances,        \* Neo._instances: class -> its instance, or None
  inits,            \* how often __init__ has run, per class (history)
  returned,         \* the <<class, instance>> pairs calls have returned
  calls,            \* constructor calls made so far
  seen              \* application.py: the titles polls have observed since
                    \* start_time was last set (history)

monVars == <<clock, pc, active, previous_window, previous_app, previous_exe,
             previous_user, start_time, end_time, usage, day_read, timestamp,
             guard_read, raised, files, log_tail, toast_tail, pre, dropped,
             polls, ticks, runs>>
csvVars == <<csv_mle, csv_xai, appends_mle, appends_xai, denials>>
splitVars == <<duration, split, time_spent>>
babyVars == <<self_act, self_hnd, self_app, self_exe, self_usr, self_inf,
              lookup, self_url, act_url>>
windowVars == <<window, alive>>
weatherVars == <<next_update_time, attempts, last_attempt, prev_attempt>>
\* the state of the programs modelled further down
trackVars == <<csv_day>>
neoVars == <<instances, inits, returned, calls>>
histVars == <<seen>>
extraVars == <<weatherVars, trackVars, neoVars, histVars>>
vars == <<monVars, csvVars, splitVars, babyVars, windowVars, extraVars>>

-----------------------------------------------------------------------------
(* Bounds of the model *)

\* the run starts this many seconds before midnight of day 0
Before == 2
\* free half-second clock ticks between statements, per run
MaxTicks == 2
\* polls of the foreground window, per run
MaxPolls == 3
\* activations of the monitor (iterations of its outer loop), per run
MaxRuns == 2
\* appends per CSV path, and denied calls, in the writers' specification
MaxAppends == 3
\* split_time_spent is applied to durations of up to this many whole days
MaxDays == 2
\* constructor calls of classes with the metaclass Neo
MaxCalls == 4
\* a run of BabyMonitorProtocol on its own starts this many seconds before
\* midnight and takes up to this many polls
UrlBefore == 3
UrlPolls == 4

-----------------------------------------------------------------------------
(* Python values and the clock *)

None == "None"
Unset == 0 - 1

SecsPerDay == 24 * 60 * 60

\* mle/constants/defaults.py
REFRESH_TIMER == 1
EXCEPTION_TIMER == 30
\* '23:59:59' read with DAY_LIMIT_FORMAT '%H:%M:%S', as the second of the day
DAY_LIMIT == 23 * 3600 + 59 * 60 + 59

\* datetime.now().replace(microsecond=0): the whole second of the clock
now(t) == t \div 2
\* datetime.strftime('%H:%M:%S'): the second of the day (zero-padded strings
\* of this format are ordered as these numbers are)
strftime_tod(s) == s % SecsPerDay
\* datetime.strftime('%d_%m_%y') of a second-precision datetime: its day
strftime_date(s) == s \div SecsPerDay

Truthy(v) == v # None /\ v # ""

\* csv.writer writes None as the empty string
csv_field(v) == IF v = None THEN "" ELSE v

header == <<"activity", "app", "executable", "user", "started", "stopped",
            "spent", "days", "hours", "mins", "secs">>

-----------------------------------------------------------------------------
(* split_time_spent *)

split_hours_no_days(days, secs) == secs \div 3600

split_hours(days, secs) == days * 24 + secs \div 3600

\* a decomposition that keeps the whole days inside hours only
split_time_spent_no_days(d) ==
  LET days == d \div SecsPerDay
      secs == d % SecsPerDay
  IN <<0, split_hours(days, secs), (secs % 3600) \div 60, secs % 60>>

\* total_time is a timedelta of d whole seconds: .days and .seconds are its
\* normalised parts
split_time_spent(d) ==
  LET days == d \div SecsPerDay
      secs == d % SecsPerDay
  IN <<days, split_hours(days, secs), (secs % 3600) \div 60, secs % 60>>

\* BabyMonitorProtocol._time_spent, xai/protocols.py lines 96-99.
\* _time_spent: str(delta) is 'H:MM:SS' under a day and 'N day(s), H:MM:SS'
\* from a day on, which strptime(..., '%H:%M:%S') rejects with ValueError;
\* raw.day is the default day 1 of strptime
self_time_spent(d) ==
  [raised |-> d >= SecsPerDay,
   value |-> <<1 - 1, d \div 3600, (d % 3600) \div 60, d % 60>>]

-----------------------------------------------------------------------------
(* CSV writers *)

\* a path of the file system: whether a file is there, and its lines
Missing == [exists |-> FALSE, lines |-> <<>>]
File(ls) == [exists |-> TRUE, lines |-> ls]

isfile(f) == f.exists
getsize(f) == Len(f.lines)

\* mle/utils/write.py write_data: open(file, 'a') and one writerow
write_data(f, row) == File(f.lines \o <<row>>)

\* mle/utils/write.py write_header: open(file, 'w') truncates
write_header(f, hdr, row) == File(<<hdr, row>>)

update_data_has_content_always(f) == isfile(f)

update_data_has_content(f) == isfile(f) /\ getsize(f) > 0

\* update_data taking the branch of line 31 whatever the file holds
update_data_truncating(f, hdr, row) == write_header(f, hdr, row)

update_data(f, hdr, row) ==
  IF update_data_has_content(f) THEN write_data(f, row)
  ELSE write_header(f, hdr, row)

xai_needs_header(f) == ~(isfile(f) /\ getsize(f) > 0)

\* xai/utils/misc.py write_data: open(file, 'a') creates the file, then the
\* size test decides on the header
xai_write_data(f, hdr, row) ==
  LET opened == File(f.lines)
  IN  IF xai_needs_header(opened) THEN File(opened.lines \o <<hdr, row>>)
      ELSE File(opened.lines \o <<row>>)

-----------------------------------------------------------------------------
(* get_active_window *)

\* foreground windows the OS may report: <<title, friendly name, exe, user>>
Windows ==
  { <<"A", "Google Chrome", "a.exe", "xa">>,
    <<"B", None, "b.exe", "xa">>,
    <<"Task Switching", "Explorer", "explorer.exe", "xa">>,
    <<"", "Desktop", "explorer.exe", "xa">> }

\* The k-th query is the first to fail, pid_exists by finding the process
\* gone, Process(pid) by raising (the process gone, or access denied); the
\* queries of app_details.get_active_window are, in order, pid_exists (57),
\* pid_exists and Process(pid).exe() (58), pid_exists and Process(pid).name()
\* (59), pid_exists and Process(pid).username() (60).  k = 8: none fails.
ExitPoints == 1..8
\* the exits the monitor's polls are run with: before the first query (no
\* active window), between pid_exists and Process(pid) (an exception), never
PollExitPoints == {1, 3, 8}

\* what _handle_info returns: None, or the tuple hnd, app, exe, usr
NoHandle == [none |-> TRUE, value |-> <<None, None, None, None>>]
Handle(v) == [none |-> FALSE, value |-> v]

Returned(v) == [raised |-> FALSE, value |-> v]
Raised == [raised |-> TRUE, value |-> <<None, None, None, None>>]

handle_of_dead_pid(w, k) == w[1]

handle_of(w, k) == IF 1 < k THEN w[1] ELSE None

get_active_window(w, k) ==
  LET handle == handle_of(w, k)
      name == IF 2 < k THEN w[2] ELSE None
      exe  == IF 4 < k THEN w[3] ELSE None
      user == IF 6 < k THEN w[4] ELSE None
  IN  IF k \in {3, 5, 7} THEN Raised
      ELSE Returned(<<handle, name, exe, user>>)

-----------------------------------------------------------------------------
(* the application monitor, mle/core/monitor/usage/application.py *)

Days == 0..3

TryBlock == {"start", "poll", "limit", "stamp", "guard", "end", "write",
             "reset", "sleep"}

\* what a poll starts from, and k, the exit of the process it is run with
Snapshot(k) == [files |-> files, start_time |-> start_time,
                window |-> previous_window, app |-> previous_app,
                exe |-> previous_exe, user |-> previous_user,
                exit |-> k]

InitState ==
  /\ clock = 2 * (SecsPerDay - Before)
  /\ active = <<None, None, None, None>>
  /\ previous_window = None /\ previous_app = None
  /\ previous_exe = None /\ previous_user = None
  /\ start_time = Unset /\ end_time = Unset /\ usage = <<0, 0, 0, 0>>
  /\ day_read = Unset /\ timestamp = Unset /\ guard_read = Unset
  /\ raised = None
  /\ files = [d \in Days |-> Missing]
  /\ log_tail = None /\ toast_tail = None
  /\ pre = [files |-> [d \in Days |-> Missing], start_time |-> Unset,
            window |-> None, app |-> None, exe |-> None, user |-> None,
            exit |-> 0]
  /\ dropped = {}
  /\ polls = 0 /\ ticks = 0 /\ runs = 0

InitMon == pc = "start" /\ InitState

\* the clock advances between two statements
Tick ==
  /\ ticks < MaxTicks
  /\ clock' = clock + 1
  /\ ticks' = ticks + 1
  /\ UNCHANGED <<extraVars, windowVars, csvVars, splitVars, babyVars, pc, active, previous_window, previous_app, previous_exe,
                 previous_user, start_time, end_time, usage, day_read,
                 timestamp, guard_read, raised, files, log_tail, toast_tail,
                 pre, dropped, polls, runs>>

\* lines 52-54
Activate ==
  /\ pc = "start"
  /\ runs < MaxRuns
  /\ runs' = runs + 1
  /\ log_tail' = "Application monitoring service started."
  /\ toast_tail' = "Application monitoring service started."
  /\ start_time' = now(clock)
  /\ raised' = None
  /\ pc' = "poll"
  /\ seen' = {}
  /\ UNCHANGED <<weatherVars, trackVars, neoVars, windowVars, csvVars, splitVars, babyVars, clock, active, previous_window, previous_app, previous_exe,
                 previous_user, end_time, usage, day_read, timestamp,
                 guard_read, files, pre, dropped, polls, ticks>>

\* line 57, get_active_window returns
PollReturns ==
  /\ pc = "poll"
  /\ polls < MaxPolls
  /\ \E w \in Windows, k \in PollExitPoints :
       /\ ~get_active_window(w, k).raised
       /\ active' = get_active_window(w, k).value
       /\ pre' = Snapshot(k)
  /\ polls' = polls + 1
  /\ raised' = None
  /\ pc' = "limit"
  /\ UNCHANGED <<extraVars, windowVars, csvVars, splitVars, babyVars, clock, previous_window, previous_app, previous_exe,
                 previous_user, start_time, end_time, usage, day_read,
                 timestamp, guard_read, files, log_tail, toast_tail, dropped,
                 ticks, runs>>

\* line 57, get_active_window raises: psutil.NoSuchProcess when the process
\* is gone, psutil.AccessDenied when it is there and refuses the query
PollRaises ==
  /\ pc = "poll"
  /\ polls < MaxPolls
  /\ \E w \in Windows, k \in PollExitPoints :
       /\ get_active_window(w, k).raised
       /\ pre' = Snapshot(k)
  /\ polls' = polls + 1
  /\ raised' \in {"NoSuchProcess", "AccessDenied"}
  /\ pc' = "except"
  /\ UNCHANGED <<extraVars, windowVars, csvVars, splitVars, babyVars, clock, active, previous_window, previous_app, previous_exe,
                 previous_user, start_time, end_time, usage, day_read,
                 timestamp, guard_read, files, log_tail, toast_tail, dropped,
                 ticks, runs>>

\* line 59: the clock read compared with DAY_LIMIT
ReadLimit ==
  /\ pc = "limit"
  /\ day_read' = now(clock)
  /\ pc' = "stamp"
  /\ UNCHANGED <<extraVars, windowVars, csvVars, splitVars, babyVars, clock, active, previous_window, previous_app, previous_exe,
                 previous_user, start_time, end_time, usage, timestamp,
                 guard_read, raised, files, log_tail, toast_tail, pre,
                 dropped, polls, ticks, runs>>

past_day_limit(s) == strftime_tod(s) >= DAY_LIMIT

\* line 67
is_application_any_title(w) == Truthy(w)

is_application(w) == Truthy(w) /\ w # "Task Switching"

\* line 68, left operand
window_changed_always(w) == TRUE

window_changed(w) == previous_window # w

\* lines 86-89 keeping the title only
UpdatePreviousTitleOnly ==
  /\ previous_window' = active[1]
  /\ UNCHANGED <<previous_app, previous_exe, previous_user>>

\* lines 86-89
UpdatePrevious ==
  /\ previous_window' = active[1]
  /\ previous_app' = active[2]
  /\ previous_exe' = active[3]
  /\ previous_user' = active[4]

\* lines 60-68: the second clock read makes timestamp; the file name follows
\* from it; then the tests that read no clock
Stamp ==
  /\ pc = "stamp"
  /\ IF past_day_limit(day_read)
       THEN /\ timestamp' = now(clock) + SecsPerDay
            /\ log_tail' =
                 "Current time exceeded daily limit. Record saved to new file."
       ELSE /\ timestamp' = now(clock)
            /\ UNCHANGED log_tail
  /\ IF is_application(active[1])
       THEN IF window_changed(active[1])
              THEN pc' = "guard" /\ UNCHANGED <<previous_window, previous_app,
                                               previous_exe, previous_user>>
              ELSE pc' = "sleep" /\ UpdatePrevious
       ELSE pc' = "sleep" /\ UNCHANGED <<previous_window, previous_app,
                                        previous_exe, previous_user>>
  /\ seen' = IF is_application(active[1]) /\ ~window_changed(active[1])
               THEN seen \cup {active[1]} ELSE seen
  /\ UNCHANGED <<weatherVars, trackVars, neoVars, windowVars, csvVars, splitVars, babyVars, clock, active, start_time, end_time, usage, day_read,
                 guard_read, raised, files, toast_tail, pre, dropped, polls,
                 ticks, runs>>

\* line 69: the clock read of the switch guard
Guard ==
  /\ pc = "guard"
  /\ guard_read' = now(clock)
  /\ IF strftime_tod(now(clock)) # DAY_LIMIT
       THEN pc' = "end" /\ UNCHANGED <<previous_window, previous_app,
                                       previous_exe, previous_user>>
       ELSE pc' = "sleep" /\ UpdatePrevious
  /\ seen' = IF strftime_tod(now(clock)) # DAY_LIMIT
               THEN seen ELSE seen \cup {active[1]}
  /\ UNCHANGED <<weatherVars, trackVars, neoVars, windowVars, csvVars, splitVars, babyVars, clock, active, start_time, end_time, usage, day_read,
                 timestamp, raised, files, log_tail, toast_tail, pre, dropped,
                 polls, ticks, runs>>

\* line 75
worth_recording_always(u) == TRUE

worth_recording(u) == u # <<0, 0, 0, 0>>

\* lines 70-75
EndTime ==
  /\ pc = "end"
  /\ end_time' = now(clock)
  /\ usage' = split_time_spent(now(clock) - start_time)
  /\ IF worth_recording(usage')
       THEN pc' = "write" /\ UNCHANGED <<previous_window, previous_app,
                                         previous_exe, previous_user>>
       ELSE pc' = "sleep" /\ UpdatePrevious
  /\ seen' = IF worth_recording(usage') THEN seen ELSE seen \cup {active[1]}
  /\ UNCHANGED <<weatherVars, trackVars, neoVars, windowVars, csvVars, splitVars, babyVars, clock, active, start_time, day_read, timestamp, guard_read,
                 raised, files, log_tail, toast_tail, pre, dropped, polls,
                 ticks, runs>>

\* csv.writer.writerow([*args]) of lines 77-79
writerow(w, a, e, u, started, stopped, us) ==
  <<csv_field(w), csv_field(a), csv_field(e), csv_field(u), started, stopped,
    stopped - started, us[1], us[2], us[3], us[4]>>

\* line 64
file == strftime_date(timestamp)

\* lines 77-79 writing the window just read instead of the previous one
WriteOkActiveWindow ==
  /\ pc = "write"
  /\ files' = [files EXCEPT ![file] =
                 update_data(@, header,
                             writerow(active[1], active[2], active[3],
                                      active[4], start_time, end_time,
                                      usage))]
  /\ pc' = "reset"
  /\ UNCHANGED <<extraVars, windowVars, csvVars, splitVars, babyVars, clock, active, previous_window,
                 previous_app, previous_exe, previous_user, start_time,
                 end_time, usage, day_read, timestamp, guard_read, raised,
                 log_tail, toast_tail, pre, dropped, polls, ticks, runs>>

\* lines 77-79, update_data returns
WriteOk ==
  /\ pc = "write"
  /\ files' = [files EXCEPT ![file] =
                 update_data(@, header,
                             writerow(previous_window, previous_app,
                                      previous_exe, previous_user, start_time,
                                      end_time, usage))]
  /\ pc' = "reset"
  /\ UNCHANGED <<extraVars, windowVars, csvVars, splitVars, babyVars, clock, active, previous_window, previous_app, previous_exe,
                 previous_user, start_time, end_time, usage, day_read,
                 timestamp, guard_read, raised, log_tail, toast_tail, pre,
                 dropped, polls, ticks, runs>>

\* lines 80-83, update_data raises PermissionError
WriteDenied ==
  /\ pc = "write"
  /\ raised' = "PermissionError"
  /\ log_tail' = "File accessed by another application."
  /\ toast_tail' = "File accessed by another application."
  /\ dropped' = dropped \cup {<<csv_field(previous_window), start_time>>}
  /\ pc' = "reset"
  /\ UNCHANGED <<extraVars, windowVars, csvVars, splitVars, babyVars, clock, active, previous_window, previous_app, previous_exe,
                 previous_user, start_time, end_time, usage, day_read,
                 timestamp, guard_read, files, pre, polls, ticks, runs>>

\* update_data raises another exception: finally runs, then it propagates
WriteFails ==
  /\ pc = "write"
  /\ raised' = "OSError"
  /\ pc' = "reset"
  /\ UNCHANGED <<extraVars, windowVars, csvVars, splitVars, babyVars, clock, active, previous_window, previous_app, previous_exe,
                 previous_user, start_time, end_time, usage, day_read,
                 timestamp, guard_read, files, log_tail, toast_tail, pre,
                 dropped, polls, ticks, runs>>

\* line 85 without its finally: skipped when update_data raised
reset_unless_raised(t) == IF raised = None THEN now(t) ELSE start_time

\* line 85 left out: the interval goes on from its old start
reset_start_time_kept(t) == start_time

\* line 85, in the finally clause
reset_start_time(t) == now(t)

\* line 85 (finally), then lines 86-89 unless an exception is propagating
Reset ==
  /\ pc = "reset"
  /\ start_time' = reset_start_time(clock)
  /\ IF raised = "OSError"
       THEN pc' = "except" /\ UNCHANGED <<previous_window, previous_app,
                                          previous_exe, previous_user>>
       ELSE pc' = "sleep" /\ UpdatePrevious
  /\ seen' = IF raised = "OSError" THEN {} ELSE {active[1]}
  /\ UNCHANGED <<weatherVars, trackVars, neoVars, windowVars, csvVars, splitVars, babyVars, clock, active, end_time, usage, day_read, timestamp,
                 guard_read, raised, files, log_tail, toast_tail, pre,
                 dropped, polls, ticks, runs>>

\* line 91
Sleep ==
  /\ pc = "sleep"
  /\ clock' = clock + 2 * REFRESH_TIMER
  /\ pc' = "poll"
  /\ UNCHANGED <<extraVars, windowVars, csvVars, splitVars, babyVars, active, previous_window, previous_app, previous_exe,
                 previous_user, start_time, end_time, usage, day_read,
                 timestamp, guard_read, raised, files, log_tail, toast_tail,
                 pre, dropped, polls, ticks, runs>>

\* an exception handler that lets the exception end the service
BackoffCrashes ==
  /\ pc = "except"
  /\ log_tail' = "Restarting application monitoring service."
  /\ toast_tail' = "Something went wrong with the service."
  /\ clock' = clock + 2 * EXCEPTION_TIMER
  /\ pc' = "crashed"
  /\ UNCHANGED <<extraVars, windowVars, csvVars, splitVars, babyVars, active, previous_window, previous_app, previous_exe,
                 previous_user, start_time, end_time, usage, day_read,
                 timestamp, guard_read, raised, files, pre, dropped, polls,
                 ticks, runs>>

\* lines 96-101
Backoff ==
  /\ pc = "except"
  /\ log_tail' = "Restarting application monitoring service."
  /\ toast_tail' = "Something went wrong with the service."
  /\ clock' = clock + 2 * EXCEPTION_TIMER
  /\ pc' = "start"
  /\ UNCHANGED <<extraVars, windowVars, csvVars, splitVars, babyVars, active, previous_window, previous_app, previous_exe,
                 previous_user, start_time, end_time, usage, day_read,
                 timestamp, guard_read, raised, files, pre, dropped, polls,
                 ticks, runs>>

\* an interrupt handler that flushes the interval in flight
InterruptFlushes ==
  /\ pc \in TryBlock
  /\ raised' = "KeyboardInterrupt"
  /\ log_tail' = "Application monitoring service interrupted."
  /\ toast_tail' = "Application monitoring service interrupted."
  /\ files' = [files EXCEPT ![strftime_date(now(clock))] =
                 update_data(@, header,
                             writerow(previous_window, previous_app,
                                      previous_exe, previous_user, start_time,
                                      now(clock),
                                      split_time_spent(now(clock)
                                                         - start_time)))]
  /\ pc' = "start"
  /\ UNCHANGED <<extraVars, windowVars, csvVars, splitVars, babyVars, clock, active,
                 previous_window, previous_app, previous_exe, previous_user,
                 start_time, end_time, usage, day_read, timestamp,
                 guard_read, pre, dropped, polls, ticks, runs>>

\* lines 92-95: KeyboardInterrupt inside the try block; the outer loop goes on
Interrupt ==
  /\ pc \in TryBlock
  /\ raised' = "KeyboardInterrupt"
  /\ log_tail' = "Application monitoring service interrupted."
  /\ toast_tail' = "Application monitoring service interrupted."
  /\ pc' = "start"
  /\ UNCHANGED <<extraVars, windowVars, csvVars, splitVars, babyVars, clock, active, previous_window, previous_app, previous_exe,
                 previous_user, start_time, end_time, usage, day_read,
                 timestamp, guard_read, files, pre, dropped, polls, ticks, runs>>

IdleCsv ==
  /\ csv_mle = Missing /\ csv_xai = Missing
  /\ appends_mle = 0 /\ appends_xai = 0 /\ denials = 0

\* _time_spent has not been called
NotSpent == [raised |-> FALSE, value |-> <<0 - 1, 0 - 1, 0 - 1, 0 - 1>>]

IdleSplit ==
  /\ duration = 0 /\ split = <<0, 0, 0, 0>>
  /\ time_spent = NotSpent

\* SilverLiningProtocol is not running
IdleWeather ==
  /\ next_update_time = Unset /\ attempts = 0
  /\ last_attempt = Unset /\ prev_attempt = Unset

\* tracker/run.py is not running
IdleTrack == csv_day = Unset

\* no class with the metaclass Neo has been called
Classes == {"BackThatAssUp", "BabyMonitorProtocol"}
\* the arguments of a constructor call
Args == {"x.log", "y.log"}
\* the class is not a key of Neo._instances
NoInstance == [id |-> 0, state |-> None]

IdleNeo ==
  /\ instances = [cls \in Classes |-> NoInstance]
  /\ inits = [cls \in Classes |-> 0]
  /\ returned = {} /\ calls = 0

IdleExtra == IdleWeather /\ IdleTrack /\ IdleNeo /\ seen = {}

\* no call of get_active_window is traced statement by statement
IdleWindow == window = <<None, None, None, None>> /\ alive = FALSE

\* protocols.py lines 66-73: the fields BabyMonitorProtocol.__init__ sets
IdleBaby ==
  /\ self_act = NoHandle
  /\ self_hnd = None /\ self_app = None /\ self_exe = None /\ self_usr = None
  /\ self_inf = None
  /\ lookup = None
  /\ self_url = None /\ act_url = None

NextMon ==
  \/ Tick \/ Activate \/ PollReturns \/ PollRaises \/ ReadLimit \/ Stamp
  \/ Guard \/ EndTime \/ WriteOk \/ WriteDenied \/ WriteFails \/ Reset
  \/ Sleep \/ Backoff \/ Interrupt

Init == InitMon /\ IdleCsv /\ IdleSplit /\ IdleBaby /\ IdleWindow /\ IdleExtra

Next == NextMon

Spec == Init /\ [][Next]_vars

-----------------------------------------------------------------------------
(* the two CSV writers on a path of their own *)

CsvRows ==
  { writerow("A", "AppA", "a.exe", "xa", 10, 12, split_time_spent(2)),
    writerow("B", None, "b.exe", "xa", 12, 13, split_time_spent(1)) }

InitCsv ==
  /\ InitMon /\ IdleSplit /\ IdleBaby /\ IdleWindow /\ IdleExtra
  /\ csv_mle \in {Missing, File(<<>>)}
  /\ csv_xai \in {Missing, File(<<>>)}
  /\ appends_mle = 0 /\ appends_xai = 0 /\ denials = 0

\* update_data(file, header, *args) returns
UpdateData ==
  /\ appends_mle < MaxAppends
  /\ \E row \in CsvRows : csv_mle' = update_data(csv_mle, header, row)
  /\ appends_mle' = appends_mle + 1
  /\ UNCHANGED <<extraVars, windowVars, monVars, splitVars, babyVars, csv_xai, appends_xai, denials>>

\* update_data raises PermissionError from open(): nothing is written
UpdateDataDenied ==
  /\ denials < MaxAppends
  /\ denials' = denials + 1
  /\ UNCHANGED <<extraVars, windowVars, monVars, splitVars, babyVars, csv_mle, csv_xai, appends_mle,
                 appends_xai>>

\* xai write_data(file, header, *args) returns
XaiWriteData ==
  /\ appends_xai < MaxAppends
  /\ \E row \in CsvRows : csv_xai' = xai_write_data(csv_xai, header, row)
  /\ appends_xai' = appends_xai + 1
  /\ UNCHANGED <<extraVars, windowVars, monVars, splitVars, babyVars, csv_mle, appends_mle, denials>>

\* xai write_data raises PermissionError from open(): nothing is written
XaiWriteDataDenied ==
  /\ denials < MaxAppends
  /\ denials' = denials + 1
  /\ UNCHANGED <<extraVars, windowVars, monVars, splitVars, babyVars, csv_mle, csv_xai, appends_mle,
                 appends_xai>>

NextCsv == UpdateData \/ UpdateDataDenied \/ XaiWriteData \/ XaiWriteDataDenied

SpecCsv == InitCsv /\ [][NextCsv]_vars

-----------------------------------------------------------------------------
(* split_time_spent on its own *)

NotSplit == <<-1, -1, -1, -1>>

Durations ==
  { d * SecsPerDay + h * 3600 + m * 60 + s :
      d \in 0..MaxDays, h \in {0, 1, 23}, m \in {0, 1, 59}, s \in {0, 1, 59} }

InitSplit ==
  /\ InitMon /\ IdleCsv /\ IdleBaby /\ IdleWindow /\ IdleExtra
  /\ duration \in Durations
  /\ time_spent = NotSpent
  /\ split = NotSplit

\* usage = split_time_spent(total_time)
SplitTimeSpent ==
  /\ split = NotSplit
  /\ split' = split_time_spent(duration)
  /\ UNCHANGED <<extraVars, windowVars, monVars, csvVars, babyVars, duration,
                 time_spent>>

\* time_spent = self._time_spent(total_time), protocols.py line 221
SelfTimeSpent ==
  /\ time_spent = NotSpent
  /\ time_spent' = self_time_spent(duration)
  /\ UNCHANGED <<extraVars, windowVars, monVars, csvVars, babyVars, duration,
                 split>>

NextSplit == SplitTimeSpent \/ SelfTimeSpent

SpecSplit == InitSplit /\ [][NextSplit]_vars

-----------------------------------------------------------------------------
(* BabyMonitorProtocol, xai/protocols.py *)

\* protocols.py lines 85-86
self_refresh == 1
self_exception == 30

xai_header == <<"activity", "app", "url", "domain", "executable", "user",
                "started", "stopped", "spent", "days", "hours", "mins",
                "secs">>

\* how a GetFileVersionInfo lookup of _app_name ends: it returns, it raises
\* NameError, it raises anything else (pywintypes.error for an executable
\* without version information)
LookupOutcomes == {"ok", "NameError", "error"}

\* a window without a friendly name is one whose lookup cannot return
lookup_possible(w, o) == o = "ok" => w[2] # None

\* _app_name: what self._inf is, and what is returned, after the call; the
\* return of the finally clause swallows every exception
self_app_name(inf, w, o) ==
  CASE o = "ok" -> w[2]
    [] o = "NameError" -> "unknown"
    [] OTHER -> inf

\* The queries of _handle_info are, in order, pid_exists (142),
\* Process(pid).exe() (144), Process(pid).name() (145),
\* Process(pid).username() (146); the k-th is the first to find the process
\* gone or out of reach.  k = 5: none does.
HandleExitPoints == 1..5
\* the exits the protocol's polls are run with (4 differs from 3 only in
\* the statement that raises)
BabyPollExitPoints == {1, 2, 3, 5}

handle_info(inf, w, k, o) ==
  LET app == self_app_name(inf, w, o)
  IN  CASE k = 1 -> [raised |-> FALSE, value |-> NoHandle, inf |-> inf,
                     lookup |-> None]
        [] k = 2 -> [raised |-> TRUE, value |-> NoHandle, inf |-> inf,
                     lookup |-> None]
        [] k \in {3, 4} -> [raised |-> TRUE, value |-> NoHandle,
                            inf |-> app, lookup |-> o]
        [] OTHER -> [raised |-> FALSE,
                     value |-> Handle(<<w[1], app, w[3], w[4]>>),
                     inf |-> app, lookup |-> o]

BabyTryBlock == {"b_start", "b_poll", "b_limit", "b_stamp", "b_guard",
                 "b_end", "b_write", "b_reset", "b_sleep"}

BabySnapshot(k) == [files |-> files, start_time |-> start_time,
                    window |-> self_hnd, app |-> self_app,
                    exe |-> self_exe, user |-> self_usr, exit |-> k]

\* lines 249-254; self._dmn goes with self._url
BabyUpdate ==
  /\ self_hnd' = active[1]
  /\ self_app' = active[2]
  /\ self_url' = act_url
  /\ self_exe' = active[3]
  /\ self_usr' = active[4]

\* line 227
baby_worth_recording(ts, hnd) == ts # <<0, 0, 0, 0>> /\ Truthy(hnd)

\* what the address bar of the Chrome window holds, with 'https://' in front
Url == "https://docs.example/page"

\* lines 150-178: None for another browser, and for Chrome when the address
\* bar is not found
absolute_url(browser) ==
  IF browser # "Google Chrome" THEN {None} ELSE {Url, None}

\* lines 234-237: re.match(r'(.*://)?([^/?]+)./*', act_url)[0]
domain_of(url) == IF Truthy(url) THEN "https://docs.example/" ELSE None

\* the row of lines 239-241
xai_writerow(h, a, url, e, u, started, stopped, ts) ==
  <<csv_field(h), csv_field(a), csv_field(url), csv_field(domain_of(url)),
    csv_field(e), csv_field(u), started, stopped, stopped - started,
    ts[1], ts[2], ts[3], ts[4]>>

\* lines 186-191
BabyActivate ==
  /\ pc = "b_start"
  /\ runs < MaxRuns
  /\ runs' = runs + 1
  /\ log_tail' = "Baby Monitor Protocol activated."
  /\ toast_tail' = "Baby Monitor Protocol activated."
  /\ start_time' = now(clock)
  /\ raised' = None
  /\ pc' = "b_poll"
  /\ act_url' = None
  /\ UNCHANGED <<extraVars, windowVars, csvVars, splitVars, clock, active, previous_window,
                 previous_app, previous_exe, previous_user, end_time, usage,
                 day_read, timestamp, guard_read, files, pre, dropped, polls,
                 ticks, self_act, self_hnd, self_app, self_exe, self_usr, self_url,
                 self_inf, lookup>>

\* lines 197-200, _handle_info returns
BabyPollReturns ==
  /\ pc = "b_poll"
  /\ polls < MaxPolls
  /\ \E w \in Windows, k \in BabyPollExitPoints, o \in LookupOutcomes :
       /\ lookup_possible(w, o)
       /\ ~handle_info(self_inf, w, k, o).raised
       /\ self_act' = handle_info(self_inf, w, k, o).value
       /\ self_inf' = handle_info(self_inf, w, k, o).inf
       /\ lookup' = handle_info(self_inf, w, k, o).lookup
       /\ pre' = BabySnapshot(k)
  /\ IF self_act'.none
       THEN pc' = "b_sleep" /\ UNCHANGED active
       ELSE pc' = "b_limit" /\ active' = self_act'.value
  /\ polls' = polls + 1
  /\ raised' = None
  /\ UNCHANGED <<extraVars, windowVars, csvVars, splitVars, clock, previous_window, previous_app,
                 previous_exe, previous_user, start_time, end_time, usage,
                 day_read, timestamp, guard_read, files, log_tail,
                 toast_tail, dropped, ticks, runs, self_hnd, self_app,
                 self_exe, self_usr, self_url, act_url>>

\* line 197, _handle_info raises psutil.NoSuchProcess or psutil.AccessDenied
BabyPollRaises ==
  /\ pc = "b_poll"
  /\ polls < MaxPolls
  /\ \E w \in Windows, k \in BabyPollExitPoints, o \in LookupOutcomes :
       /\ lookup_possible(w, o)
       /\ handle_info(self_inf, w, k, o).raised
       /\ self_inf' = handle_info(self_inf, w, k, o).inf
       /\ lookup' = handle_info(self_inf, w, k, o).lookup
       /\ pre' = BabySnapshot(k)
  /\ \E e \in {"NoSuchProcess", "AccessDenied"} :
       /\ raised' = e
       /\ pc' = IF e = "AccessDenied" THEN "b_denied" ELSE "b_except"
  /\ polls' = polls + 1
  /\ UNCHANGED <<extraVars, windowVars, csvVars, splitVars, clock, active, previous_window,
                 previous_app, previous_exe, previous_user, start_time,
                 end_time, usage, day_read, timestamp, guard_read, files,
                 log_tail, toast_tail, dropped, ticks, runs, self_act,
                 self_hnd, self_app, self_exe, self_usr, self_url, act_url>>

\* line 205: the clock read compared with self._limit
BabyReadLimit ==
  /\ pc = "b_limit"
  /\ day_read' = now(clock)
  /\ pc' = "b_stamp"
  /\ UNCHANGED <<extraVars, windowVars, csvVars, splitVars, clock, active, previous_window,
                 previous_app, previous_exe, previous_user, start_time,
                 end_time, usage, timestamp, guard_read, raised, files,
                 log_tail, toast_tail, pre, dropped, polls, ticks, runs,
                 self_act, self_hnd, self_app, self_exe, self_usr, self_url, self_inf,
                 lookup, act_url>>

\* lines 206-216: the second clock read makes _raw_date and the file name;
\* then the tests that read no clock
BabyStamp ==
  /\ pc = "b_stamp"
  /\ timestamp' = IF past_day_limit(day_read) THEN now(clock) + SecsPerDay
                  ELSE now(clock)
  /\ IF is_application(active[1])
       THEN IF self_hnd # active[1]
              THEN pc' = "b_guard" /\ UNCHANGED <<self_hnd, self_app,
                                                 self_exe, self_usr, self_url>>
              ELSE pc' = "b_sleep" /\ BabyUpdate
       ELSE pc' = "b_sleep" /\ UNCHANGED <<self_hnd, self_app, self_exe,
                                          self_usr, self_url>>
  /\ UNCHANGED <<extraVars, windowVars, csvVars, splitVars, clock, active, previous_window,
                 previous_app, previous_exe, previous_user, start_time,
                 end_time, usage, day_read, guard_read, raised, files,
                 log_tail, toast_tail, pre, dropped, polls, ticks, runs,
                 self_act, self_inf, lookup, act_url>>

\* line 217: the clock read of the switch guard
BabyGuard ==
  /\ pc = "b_guard"
  /\ guard_read' = now(clock)
  /\ IF strftime_tod(now(clock)) # DAY_LIMIT
       THEN pc' = "b_end" /\ UNCHANGED <<self_hnd, self_app, self_exe,
                                        self_usr, self_url>>
       ELSE pc' = "b_sleep" /\ BabyUpdate
  /\ UNCHANGED <<extraVars, windowVars, csvVars, splitVars, clock, active, previous_window,
                 previous_app, previous_exe, previous_user, start_time,
                 end_time, usage, day_read, timestamp, raised, files,
                 log_tail, toast_tail, pre, dropped, polls, ticks, runs,
                 self_act, self_inf, lookup, act_url>>

\* lines 218-227
BabyEndTime ==
  /\ pc = "b_end"
  /\ end_time' = now(clock)
  /\ IF self_time_spent(now(clock) - start_time).raised
       THEN /\ raised' = "ValueError"
            /\ pc' = "b_except"
            /\ UNCHANGED <<usage, self_hnd, self_app, self_exe, self_usr, self_url>>
       ELSE /\ usage' = self_time_spent(now(clock) - start_time).value
            /\ UNCHANGED raised
            /\ IF baby_worth_recording(usage', self_hnd)
                 THEN pc' = "b_write" /\ UNCHANGED <<self_hnd, self_app,
                                                    self_exe, self_usr, self_url>>
                 ELSE pc' = "b_sleep" /\ BabyUpdate
  /\ UNCHANGED <<extraVars, windowVars, csvVars, splitVars, clock, active, previous_window,
                 previous_app, previous_exe, previous_user, start_time,
                 day_read, timestamp, guard_read, files, log_tail,
                 toast_tail, pre, dropped, polls, ticks, runs, self_act,
                 self_inf, lookup, act_url>>

\* lines 229-241, write_data returns
BabyWriteOk ==
  /\ pc = "b_write"
  /\ files' = [files EXCEPT ![file] =
                 xai_write_data(@, xai_header,
                                xai_writerow(self_hnd, self_app, self_url,
                                             self_exe, self_usr, start_time,
                                             end_time, usage))]
  /\ pc' = "b_reset"
  /\ act_url' \in absolute_url(active[2])
  /\ UNCHANGED <<extraVars, windowVars, csvVars, splitVars, clock, active, previous_window,
                 previous_app, previous_exe, previous_user, start_time,
                 end_time, usage, day_read, timestamp, guard_read, raised,
                 log_tail, toast_tail, pre, dropped, polls, ticks, runs,
                 self_act, self_hnd, self_app, self_exe, self_usr, self_url, self_inf,
                 lookup>>

\* lines 243-245, write_data raises PermissionError
BabyWriteDenied ==
  /\ pc = "b_write"
  /\ raised' = "PermissionError"
  /\ log_tail' = "File accessed by another application."
  /\ toast_tail' = "File accessed by another application."
  /\ dropped' = dropped \cup {<<csv_field(self_hnd), start_time>>}
  /\ pc' = "b_reset"
  /\ act_url' \in absolute_url(active[2])
  /\ UNCHANGED <<extraVars, windowVars, csvVars, splitVars, clock, active, previous_window,
                 previous_app, previous_exe, previous_user, start_time,
                 end_time, usage, day_read, timestamp, guard_read, files,
                 pre, polls, ticks, runs, self_act, self_hnd, self_app,
                 self_exe, self_usr, self_url, self_inf, lookup>>

\* write_data raises another exception: finally runs, then it propagates
BabyWriteFails ==
  /\ pc = "b_write"
  /\ raised' = "OSError"
  /\ pc' = "b_reset"
  /\ act_url' \in absolute_url(active[2])
  /\ UNCHANGED <<extraVars, windowVars, csvVars, splitVars, clock, active, previous_window,
                 previous_app, previous_exe, previous_user, start_time,
                 end_time, usage, day_read, timestamp, guard_read, files,
                 log_tail, toast_tail, pre, dropped, polls, ticks, runs,
                 self_act, self_hnd, self_app, self_exe, self_usr, self_url, self_inf,
                 lookup>>

\* line 247 (finally), then lines 249-254 unless an exception is propagating
BabyReset ==
  /\ pc = "b_reset"
  /\ start_time' = now(clock)
  /\ IF raised = "OSError"
       THEN pc' = "b_except" /\ UNCHANGED <<self_hnd, self_app, self_exe,
                                           self_usr, self_url>>
       ELSE pc' = "b_sleep" /\ BabyUpdate
  /\ UNCHANGED <<extraVars, windowVars, csvVars, splitVars, clock, active, previous_window,
                 previous_app, previous_exe, previous_user, end_time, usage,
                 day_read, timestamp, guard_read, raised, files, log_tail,
                 toast_tail, pre, dropped, polls, ticks, runs, self_act,
                 self_inf, lookup, act_url>>

\* line 257
BabySleep ==
  /\ pc = "b_sleep"
  /\ clock' = clock + 2 * self_refresh
  /\ pc' = "b_poll"
  /\ UNCHANGED <<extraVars, windowVars, csvVars, splitVars, active, previous_window, previous_app,
                 previous_exe, previous_user, start_time, end_time, usage,
                 day_read, timestamp, guard_read, raised, files, log_tail,
                 toast_tail, pre, dropped, polls, ticks, runs, self_act,
                 self_hnd, self_app, self_exe, self_usr, self_url, self_inf, lookup, act_url>>

\* lines 262-264 and the finally of lines 268-271
BabyCrashBackoff ==
  /\ pc = "b_denied"
  /\ log_tail' = "Baby Monitor Protocol encountered an application crash."
  /\ toast_tail' = "Baby Monitor Protocol encountered an application crash."
  /\ clock' = clock + 2 * self_exception
  /\ pc' = "b_start"
  /\ UNCHANGED <<extraVars, windowVars, csvVars, splitVars, active, previous_window, previous_app,
                 previous_exe, previous_user, start_time, end_time, usage,
                 day_read, timestamp, guard_read, raised, files, pre,
                 dropped, polls, ticks, runs, self_act, self_hnd, self_app,
                 self_exe, self_usr, self_url, self_inf, lookup, act_url>>

\* lines 265-267 and the finally of lines 268-271
BabyBackoff ==
  /\ pc = "b_except"
  /\ log_tail' = raised
  /\ toast_tail' = "Baby Monitor Protocol stopped abruptly."
  /\ clock' = clock + 2 * self_exception
  /\ pc' = "b_start"
  /\ UNCHANGED <<extraVars, windowVars, csvVars, splitVars, active, previous_window, previous_app,
                 previous_exe, previous_user, start_time, end_time, usage,
                 day_read, timestamp, guard_read, raised, files, pre,
                 dropped, polls, ticks, runs, self_act, self_hnd, self_app,
                 self_exe, self_usr, self_url, self_inf, lookup, act_url>>

\* lines 258-261: KeyboardInterrupt inside the try block; exit(0) raises
\* SystemExit, the finally of lines 268-271 sleeps, the process ends
BabyInterrupt ==
  /\ pc \in BabyTryBlock
  /\ raised' = "KeyboardInterrupt"
  /\ log_tail' = "Baby Monitor Protocol interrupted."
  /\ toast_tail' = "Baby Monitor Protocol interrupted."
  /\ clock' = clock + 2 * self_exception
  /\ pc' = "b_exited"
  /\ UNCHANGED <<extraVars, windowVars, csvVars, splitVars, active, previous_window, previous_app,
                 previous_exe, previous_user, start_time, end_time, usage,
                 day_read, timestamp, guard_read, files, pre, dropped, polls,
                 ticks, runs, self_act, self_hnd, self_app, self_exe,
                 self_usr, self_url, self_inf, lookup, act_url>>

NextBaby ==
  \/ BabyActivate \/ BabyPollReturns \/ BabyPollRaises \/ BabyReadLimit
  \/ BabyStamp \/ BabyGuard \/ BabyEndTime \/ BabyWriteOk \/ BabyWriteDenied
  \/ BabyWriteFails \/ BabyReset \/ BabySleep \/ BabyCrashBackoff
  \/ BabyBackoff \/ BabyInterrupt

\* either tracker daemon is started
InitTrackers ==
  /\ pc \in {"start", "b_start"}
  /\ InitState /\ IdleCsv /\ IdleSplit /\ IdleBaby /\ IdleWindow /\ IdleExtra

NextTrackers == NextMon \/ NextBaby

\* BabyMonitorProtocol on its own, constructed and about to be activated,
\* for a run of UrlPolls polls
InitUrl ==
  /\ pc = "b_start"
  /\ clock = 2 * (SecsPerDay - UrlBefore)
  /\ polls = MaxPolls - UrlPolls
  /\ active = <<None, None, None, None>>
  /\ previous_window = None /\ previous_app = None
  /\ previous_exe = None /\ previous_user = None
  /\ start_time = Unset /\ end_time = Unset /\ usage = <<0, 0, 0, 0>>
  /\ day_read = Unset /\ timestamp = Unset /\ guard_read = Unset
  /\ raised = None
  /\ files = [d \in Days |-> Missing]
  /\ log_tail = None /\ toast_tail = None
  /\ pre = [files |-> [d \in Days |-> Missing], start_time |-> Unset,
            window |-> None, app |-> None, exe |-> None, user |-> None,
            exit |-> 0]
  /\ dropped = {}
  /\ ticks = 0 /\ runs = 0
  /\ IdleCsv /\ IdleSplit /\ IdleBaby /\ IdleWindow /\ IdleExtra

SpecUrl == InitUrl /\ [][NextBaby]_vars

SpecTrackers == InitTrackers /\ [][NextTrackers]_vars

-----------------------------------------------------------------------------
(* app_details.get_active_window statement by statement, next to the process
   of the foreground window *)

\* psutil.pid_exists(pid)
pid_exists == alive

\* the statements still to run; w61 has returned, w_raised has raised
WindowSteps == {"w57", "w58", "w58p", "w59", "w59p", "w60", "w60p"}

\* the Process(pid) query guarded by the pid_exists of a line
process_step(p) ==
  CASE p = "w58" -> "w58p" [] p = "w59" -> "w59p" [] OTHER -> "w60p"

\* the line after a line (61 returns the tuple)
next_line(p) ==
  CASE p \in {"w58", "w58p"} -> "w59"
    [] p \in {"w59", "w59p"} -> "w60"
    [] OTHER -> "w61"

\* the place in handle, name, exe, user a line assigns
field_of(p) ==
  CASE p \in {"w58", "w58p"} -> 2
    [] p \in {"w59", "w59p"} -> 3
    [] OTHER -> 4

\* the process of the foreground window exits while the call is running
ProcessExits ==
  /\ pc \in WindowSteps
  /\ alive
  /\ alive' = FALSE
  /\ UNCHANGED <<extraVars, csvVars, splitVars, babyVars, clock, pc, active,
                 previous_window, previous_app, previous_exe, previous_user,
                 start_time, end_time, usage, day_read, timestamp,
                 guard_read, raised, files, log_tail, toast_tail, pre,
                 dropped, polls, ticks, runs, window>>

\* line 57: handle = handle if pid_exists(pid) else None
WindowHandle ==
  /\ pc = "w57"
  /\ active' = [active EXCEPT ![1] = IF pid_exists THEN window[1] ELSE None]
  /\ pc' = "w58"
  /\ UNCHANGED <<extraVars, csvVars, splitVars, babyVars, clock, previous_window,
                 previous_app, previous_exe, previous_user, start_time,
                 end_time, usage, day_read, timestamp, guard_read, raised,
                 files, log_tail, toast_tail, pre, dropped, polls, ticks,
                 runs, window, alive>>

\* lines 58-60, right of the if: pid_exists(pid)
WindowPidExists ==
  /\ pc \in {"w58", "w59", "w60"}
  /\ IF pid_exists
       THEN pc' = process_step(pc) /\ UNCHANGED active
       ELSE /\ active' = [active EXCEPT ![field_of(pc)] = None]
            /\ pc' = next_line(pc)
  /\ UNCHANGED <<extraVars, csvVars, splitVars, babyVars, clock, previous_window,
                 previous_app, previous_exe, previous_user, start_time,
                 end_time, usage, day_read, timestamp, guard_read, raised,
                 files, log_tail, toast_tail, pre, dropped, polls, ticks,
                 runs, window, alive>>

\* lines 58-60, left of the if: Process(pid).exe(), .name(), .username() of a
\* process that is there; get_name_from_exe returns None for an executable
\* without a description
WindowProcess ==
  /\ pc \in {"w58p", "w59p", "w60p"}
  /\ alive
  /\ active' = [active EXCEPT ![field_of(pc)] = window[field_of(pc)]]
  /\ pc' = next_line(pc)
  /\ UNCHANGED <<extraVars, csvVars, splitVars, babyVars, clock, previous_window,
                 previous_app, previous_exe, previous_user, start_time,
                 end_time, usage, day_read, timestamp, guard_read, raised,
                 files, log_tail, toast_tail, pre, dropped, polls, ticks,
                 runs, window, alive>>

\* lines 58-60, left of the if: Process(pid) raises, psutil.NoSuchProcess for
\* a process that is gone, psutil.AccessDenied for one that refuses
WindowProcessRaises ==
  /\ pc \in {"w58p", "w59p", "w60p"}
  /\ raised' = IF alive THEN "AccessDenied" ELSE "NoSuchProcess"
  /\ pc' = "w_raised"
  /\ UNCHANGED <<extraVars, csvVars, splitVars, babyVars, clock, active,
                 previous_window, previous_app, previous_exe, previous_user,
                 start_time, end_time, usage, day_read, timestamp,
                 guard_read, files, log_tail, toast_tail, pre, dropped,
                 polls, ticks, runs, window, alive>>

\* lines 53-55: the foreground window is read; its process may be gone
InitWindow ==
  /\ pc = "w57"
  /\ InitState /\ IdleCsv /\ IdleSplit /\ IdleBaby /\ IdleExtra
  /\ window \in Windows
  /\ alive \in BOOLEAN

NextWindow ==
  \/ ProcessExits \/ WindowHandle \/ WindowPidExists \/ WindowProcess
  \/ WindowProcessRaises

SpecWindow == InitWindow /\ [][NextWindow]_vars

-----------------------------------------------------------------------------
(* SilverLiningProtocol, xai/protocols.py *)

\* protocols.py lines 310-311
silver_refresh == 1
silver_exception == 30

silver_headers == <<"time", "year", "month", "day", "hour", "mins",
                    "latitude", "longitude", "summary", "temp", "max_temp",
                    "min_temp", "apptemp", "max_apptemp", "min_apptemp",
                    "dewpoint", "humidty", "pressure", "windspeed",
                    "windgust", "windbearing", "winddirection", "cloudcover",
                    "uv", "visibility", "ozone">>

\* the row of lines 419-422: update_time, its date and time fields, and the
\* conditions (not traced)
silver_row(t) ==
  <<t, strftime_date(t), strftime_tod(t) \div 3600,
    (strftime_tod(t) % 3600) \div 60, "conditions">>

\* lines 398-401
raw_date(t) == IF past_day_limit(t) THEN t + SecsPerDay ELSE t

\* lines 410-411
call_due(t) == t >= next_update_time /\ strftime_tod(t) # DAY_LIMIT

\* lines 412-413: timedelta(minutes=self._exception)
next_update(t) == t + 60 * silver_exception

\* lines 424-428
caught_message(e) ==
  IF e = "PermissionError" THEN "File accessed by another application."
  ELSE "Internet connection is questionable."

\* lines 389-391
WeatherActivate ==
  /\ pc = "s_start"
  /\ runs < MaxRuns
  /\ runs' = runs + 1
  /\ log_tail' = "Silver Lining Protocol activated."
  /\ toast_tail' = "Silver Lining Protocol activated."
  /\ next_update_time' = now(clock)
  /\ raised' = None
  /\ pc' = "s_loop"
  /\ UNCHANGED <<csvVars, splitVars, babyVars, windowVars, attempts,
                 last_attempt, prev_attempt, trackVars, neoVars, histVars,
                 clock, active, previous_window, previous_app, previous_exe,
                 previous_user, start_time, end_time, usage, day_read,
                 timestamp, guard_read, files, pre, dropped, polls, ticks>>

\* lines 398-411 and 434: no call is due
WeatherWait ==
  /\ pc = "s_loop"
  /\ polls < MaxPolls
  /\ ~call_due(now(clock))
  /\ timestamp' = raw_date(now(clock))
  /\ clock' = clock + 2 * silver_refresh
  /\ UNCHANGED <<csvVars, splitVars, babyVars, windowVars, weatherVars,
                 trackVars, neoVars, histVars, pc, active, previous_window,
                 previous_app, previous_exe, previous_user, start_time,
                 end_time, usage, day_read, guard_read, raised, files,
                 log_tail, toast_tail, pre, dropped, polls, ticks, runs>>

\* lines 398-416 and 429-434: a call is due, check_internet() is False
WeatherOffline ==
  /\ pc = "s_loop"
  /\ polls < MaxPolls
  /\ call_due(now(clock))
  /\ polls' = polls + 1
  /\ timestamp' = raw_date(now(clock))
  /\ next_update_time' = next_update(now(clock))
  /\ log_tail' = "Internet connection not available."
  /\ toast_tail' = "Internet connection not available."
  /\ clock' = clock + 2 * silver_refresh
  /\ UNCHANGED <<csvVars, splitVars, babyVars, windowVars, attempts,
                 last_attempt, prev_attempt, trackVars, neoVars, histVars,
                 pc, active, previous_window, previous_app, previous_exe,
                 previous_user, start_time, end_time, usage, day_read,
                 guard_read, raised, files, pre, dropped, ticks, runs>>

\* lines 398-422 and 434: the call returns and the row is written
WeatherRecord ==
  /\ pc = "s_loop"
  /\ polls < MaxPolls
  /\ call_due(now(clock))
  /\ polls' = polls + 1
  /\ timestamp' = raw_date(now(clock))
  /\ next_update_time' = next_update(now(clock))
  /\ attempts' = attempts + 1
  /\ prev_attempt' = last_attempt
  /\ last_attempt' = now(clock)
  /\ files' = [files EXCEPT ![strftime_date(timestamp')] =
                 xai_write_data(@, silver_headers,
                                silver_row(now(clock)))]
  /\ clock' = clock + 2 * silver_refresh
  /\ UNCHANGED <<csvVars, splitVars, babyVars, windowVars, trackVars,
                 neoVars, histVars, pc, active, previous_window,
                 previous_app, previous_exe, previous_user, start_time,
                 end_time, usage, day_read, guard_read, raised, log_tail,
                 toast_tail, pre, dropped, ticks, runs>>

\* lines 423-428: the call or the write raises ConnectionError,
\* ConnectionResetError or PermissionError, caught inside the loop
WeatherCallCaught ==
  /\ pc = "s_loop"
  /\ polls < MaxPolls
  /\ call_due(now(clock))
  /\ polls' = polls + 1
  /\ timestamp' = raw_date(now(clock))
  /\ next_update_time' = next_update(now(clock))
  /\ attempts' = attempts + 1
  /\ prev_attempt' = last_attempt
  /\ last_attempt' = now(clock)
  /\ \E e \in {"ConnectionError", "PermissionError"} :
       /\ raised' = e
       /\ log_tail' = caught_message(e)
       /\ toast_tail' = caught_message(e)
  /\ clock' = clock + 2 * silver_refresh
  /\ UNCHANGED <<csvVars, splitVars, babyVars, windowVars, trackVars,
                 neoVars, histVars, pc, active, previous_window,
                 previous_app, previous_exe, previous_user, start_time,
                 end_time, usage, day_read, guard_read, files, pre, dropped,
                 ticks, runs>>

\* line 418: the call leaves the inner loop with an exception: KeyError for
\* an answer without the fields of lines 359-378, TypeError for the None of
\* line 381 unpacked at line 422
WeatherCallRaises ==
  /\ pc = "s_loop"
  /\ polls < MaxPolls
  /\ call_due(now(clock))
  /\ polls' = polls + 1
  /\ timestamp' = raw_date(now(clock))
  /\ next_update_time' = next_update(now(clock))
  /\ attempts' = attempts + 1
  /\ prev_attempt' = last_attempt
  /\ last_attempt' = now(clock)
  /\ raised' \in {"KeyError", "TypeError"}
  /\ pc' = "s_except"
  /\ UNCHANGED <<csvVars, splitVars, babyVars, windowVars, trackVars,
                 neoVars, histVars, clock, active, previous_window,
                 previous_app, previous_exe, previous_user, start_time,
                 end_time, usage, day_read, guard_read, files, log_tail,
                 toast_tail, pre, dropped, ticks, runs>>

\* line 353: _coordinates raises geopy.exc.GeocoderTimedOut before the call
WeatherGeocoderRaises ==
  /\ pc = "s_loop"
  /\ polls < MaxPolls
  /\ call_due(now(clock))
  /\ polls' = polls + 1
  /\ timestamp' = raw_date(now(clock))
  /\ next_update_time' = next_update(now(clock))
  /\ raised' = "GeocoderTimedOut"
  /\ pc' = "s_except"
  /\ UNCHANGED <<csvVars, splitVars, babyVars, windowVars, attempts,
                 last_attempt, prev_attempt, trackVars, neoVars, histVars,
                 clock, active, previous_window, previous_app, previous_exe,
                 previous_user, start_time, end_time, usage, day_read,
                 guard_read, files, log_tail, toast_tail, pre, dropped,
                 ticks, runs>>

\* lines 439-451: the handlers of the outer try and its finally
WeatherBackoff ==
  /\ pc = "s_except"
  /\ log_tail' = IF raised = "GeocoderTimedOut"
                   THEN "Silver Lining Protocol timed out."
                   ELSE raised
  /\ toast_tail' = IF raised = "GeocoderTimedOut"
                     THEN "Silver Lining Protocol timed out."
                     ELSE "Silver Lining Protocol stopped abruptly."
  /\ clock' = clock + 2 * silver_exception
  /\ pc' = "s_start"
  /\ UNCHANGED <<csvVars, splitVars, babyVars, windowVars, weatherVars,
                 trackVars, neoVars, histVars, active, previous_window,
                 previous_app, previous_exe, previous_user, start_time,
                 end_time, usage, day_read, timestamp, guard_read, raised,
                 files, pre, dropped, polls, ticks, runs>>

\* lines 435-438 and 448-451: KeyboardInterrupt, exit(0) after the finally
WeatherInterrupt ==
  /\ pc \in {"s_start", "s_loop"}
  /\ raised' = "KeyboardInterrupt"
  /\ log_tail' = "Silver Lining Protocol interrupted."
  /\ toast_tail' = "Silver Lining Protocol interrupted."
  /\ clock' = clock + 2 * silver_exception
  /\ pc' = "s_exited"
  /\ UNCHANGED <<csvVars, splitVars, babyVars, windowVars, weatherVars,
                 trackVars, neoVars, histVars, active, previous_window,
                 previous_app, previous_exe, previous_user, start_time,
                 end_time, usage, day_read, timestamp, guard_read, files,
                 pre, dropped, polls, ticks, runs>>

\* SilverLiningProtocol.__init__ and the start of activate
InitWeather ==
  /\ pc = "s_start"
  /\ InitState /\ IdleCsv /\ IdleSplit /\ IdleBaby /\ IdleWindow /\ IdleExtra

NextWeather ==
  \/ WeatherActivate \/ WeatherWait \/ WeatherOffline \/ WeatherRecord
  \/ WeatherCallCaught \/ WeatherCallRaises \/ WeatherGeocoderRaises
  \/ WeatherBackoff \/ WeatherInterrupt

SpecWeather == InitWeather /\ [][NextWeather]_vars

-----------------------------------------------------------------------------
(* The tracker service, mle/core/tracker/run.py *)

\* tracker/track.py get_active_window: one pid_exists test; the three
\* lookups return None instead of raising
track_get_active_window(w, up) ==
  IF up THEN w ELSE <<None, None, None, None>>

\* lines 48-55: the module's globals, `file` among them, then the start
TrackStart ==
  /\ pc = "t_start"
  /\ previous_window' = "" /\ previous_app' = ""
  /\ previous_exe' = "" /\ previous_user' = ""
  /\ csv_day' = strftime_date(now(clock))
  /\ toast_tail' = "Tracker service started."
  /\ start_time' = now(clock)
  /\ pc' = "t_poll"
  /\ UNCHANGED <<csvVars, splitVars, babyVars, windowVars, weatherVars,
                 neoVars, histVars, clock, active, end_time, usage, day_read,
                 timestamp, guard_read, raised, files, log_tail, pre,
                 dropped, polls, ticks, runs>>

\* lines 58 and 61: the window, then the clock read of the limit test
TrackPoll ==
  /\ pc = "t_poll"
  /\ polls < MaxPolls
  /\ polls' = polls + 1
  /\ \E w \in Windows, up \in BOOLEAN :
       active' = track_get_active_window(w, up)
  /\ day_read' = now(clock)
  /\ pc' = "t_limit"
  /\ UNCHANGED <<csvVars, splitVars, babyVars, windowVars, weatherVars,
                 trackVars, neoVars, histVars, clock, previous_window,
                 previous_app, previous_exe, previous_user, start_time,
                 end_time, usage, timestamp, guard_read, raised, files,
                 log_tail, toast_tail, pre, dropped, ticks, runs>>

\* lines 61-64: past the limit, `file` is named for the day after a second
\* clock read; otherwise it stays as it is
TrackLimit ==
  /\ pc = "t_limit"
  /\ csv_day' = IF past_day_limit(day_read)
                  THEN strftime_date(now(clock) + SecsPerDay)
                  ELSE csv_day
  /\ pc' = "t_guard"
  /\ UNCHANGED <<csvVars, splitVars, babyVars, windowVars, weatherVars,
                 neoVars, histVars, clock, active, previous_window,
                 previous_app, previous_exe, previous_user, start_time,
                 end_time, usage, day_read, timestamp, guard_read, raised,
                 files, log_tail, toast_tail, pre, dropped, polls, ticks,
                 runs>>

\* lines 66-68 and 79-82
TrackGuard ==
  /\ pc = "t_guard"
  /\ guard_read' = now(clock)
  /\ IF is_application(active[1])
       THEN IF window_changed(active[1])
                 /\ strftime_tod(now(clock)) # DAY_LIMIT
              THEN pc' = "t_end"
                   /\ UNCHANGED <<previous_window, previous_app,
                                  previous_exe, previous_user>>
              ELSE pc' = "t_sleep" /\ UpdatePrevious
       ELSE pc' = "t_sleep"
            /\ UNCHANGED <<previous_window, previous_app, previous_exe,
                           previous_user>>
  /\ UNCHANGED <<csvVars, splitVars, babyVars, windowVars, weatherVars,
                 trackVars, neoVars, histVars, clock, active, start_time,
                 end_time, usage, day_read, timestamp, raised, files,
                 log_tail, toast_tail, pre, dropped, polls, ticks, runs>>

\* lines 69-74 and 79-82
TrackEndTime ==
  /\ pc = "t_end"
  /\ end_time' = now(clock)
  /\ usage' = split_time_spent(now(clock) - start_time)
  /\ IF worth_recording(usage')
       THEN pc' = "t_write"
            /\ UNCHANGED <<previous_window, previous_app, previous_exe,
                           previous_user>>
       ELSE pc' = "t_sleep" /\ UpdatePrevious
  /\ UNCHANGED <<csvVars, splitVars, babyVars, windowVars, weatherVars,
                 trackVars, neoVars, histVars, clock, active, start_time,
                 day_read, timestamp, guard_read, raised, files, log_tail,
                 toast_tail, pre, dropped, polls, ticks, runs>>

\* lines 75-82
TrackWrite ==
  /\ pc = "t_write"
  /\ files' = [files EXCEPT ![csv_day] =
                 update_data(@, header,
                             writerow(previous_window, previous_app,
                                      previous_exe, previous_user,
                                      start_time, end_time, usage))]
  /\ start_time' = now(clock)
  /\ UpdatePrevious
  /\ pc' = "t_sleep"
  /\ UNCHANGED <<csvVars, splitVars, babyVars, windowVars, weatherVars,
                 trackVars, neoVars, histVars, clock, active, end_time,
                 usage, day_read, timestamp, guard_read, raised, log_tail,
                 toast_tail, pre, dropped, polls, ticks, runs>>

\* lines 75-77 and 85-88: update_data raises, the handler re-raises and the
\* service ends
TrackFails ==
  /\ pc = "t_write"
  /\ raised' = "PermissionError"
  /\ toast_tail' = "Tracker service failure."
  /\ pc' = "t_failed"
  /\ UNCHANGED <<csvVars, splitVars, babyVars, windowVars, weatherVars,
                 trackVars, neoVars, histVars, clock, active,
                 previous_window, previous_app, previous_exe, previous_user,
                 start_time, end_time, usage, day_read, timestamp,
                 guard_read, files, log_tail, pre, dropped, polls, ticks,
                 runs>>

\* line 84
TrackSleep ==
  /\ pc = "t_sleep"
  /\ clock' = clock + 2
  /\ pc' = "t_poll"
  /\ UNCHANGED <<csvVars, splitVars, babyVars, windowVars, weatherVars,
                 trackVars, neoVars, histVars, active, previous_window,
                 previous_app, previous_exe, previous_user, start_time,
                 end_time, usage, day_read, timestamp, guard_read, raised,
                 files, log_tail, toast_tail, pre, dropped, polls, ticks,
                 runs>>

InitTrack ==
  /\ pc = "t_start"
  /\ InitState /\ IdleCsv /\ IdleSplit /\ IdleBaby /\ IdleWindow /\ IdleExtra

NextTrack ==
  \/ Tick \/ TrackStart \/ TrackPoll \/ TrackLimit \/ TrackGuard
  \/ TrackEndTime \/ TrackWrite \/ TrackFails \/ TrackSleep

SpecTrack == InitTrack /\ [][NextTrack]_vars

-----------------------------------------------------------------------------
(* The metaclass Neo, xai/utils/misc.py *)

\* line 43
has_instance(cls) == instances[cls] # NoInstance

\* lines 43-45: no instance yet; __init__ runs with the arguments given and
\* the new object is kept and returned
NeoCallCreates ==
  /\ calls < MaxCalls
  /\ \E cls \in Classes, args \in Args :
       /\ ~has_instance(cls)
       /\ inits' = [inits EXCEPT ![cls] = @ + 1]
       /\ instances' = [instances EXCEPT
                          ![cls] = [id |-> inits'[cls], state |-> args]]
       /\ returned' = returned \cup {<<cls, args, instances'[cls]>>}
  /\ calls' = calls + 1
  /\ UNCHANGED <<csvVars, splitVars, babyVars, windowVars, weatherVars,
                 trackVars, histVars, clock, pc, active, previous_window,
                 previous_app, previous_exe, previous_user, start_time,
                 end_time, usage, day_read, timestamp, guard_read, raised,
                 files, log_tail, toast_tail, pre, dropped, polls, ticks,
                 runs>>

\* lines 43-44: no instance yet; __init__ runs and raises (logger.py line
\* 125 cannot open the file, protocols.py line 94), nothing is kept
NeoCallRaises ==
  /\ calls < MaxCalls
  /\ \E cls \in Classes :
       /\ ~has_instance(cls)
       /\ inits' = [inits EXCEPT ![cls] = @ + 1]
  /\ calls' = calls + 1
  /\ UNCHANGED <<csvVars, splitVars, babyVars, windowVars, weatherVars,
                 trackVars, instances, returned, histVars, clock, pc, active,
                 previous_window, previous_app, previous_exe, previous_user,
                 start_time, end_time, usage, day_read, timestamp,
                 guard_read, raised, files, log_tail, toast_tail, pre,
                 dropped, polls, ticks, runs>>

\* lines 43-45 without the test of line 43
NeoCallReturnsFresh ==
  /\ calls < MaxCalls
  /\ \E cls \in Classes, args \in Args :
       /\ has_instance(cls)
       /\ inits' = [inits EXCEPT ![cls] = @ + 1]
       /\ instances' = [instances EXCEPT
                          ![cls] = [id |-> inits'[cls], state |-> args]]
       /\ returned' = returned \cup {<<cls, args, instances'[cls]>>}
  /\ calls' = calls + 1
  /\ UNCHANGED <<csvVars, splitVars, babyVars, windowVars, weatherVars,
                 trackVars, histVars, clock, pc, active, previous_window,
                 previous_app, previous_exe, previous_user, start_time,
                 end_time, usage, day_read, timestamp, guard_read, raised,
                 files, log_tail, toast_tail, pre, dropped, polls, ticks,
                 runs>>

\* lines 43 and 45: the instance kept is returned, the arguments are dropped
NeoCallReturns ==
  /\ calls < MaxCalls
  /\ \E cls \in Classes, args \in Args :
       /\ has_instance(cls)
       /\ returned' = returned \cup {<<cls, args, instances[cls]>>}
  /\ calls' = calls + 1
  /\ UNCHANGED <<csvVars, splitVars, babyVars, windowVars, weatherVars,
                 trackVars, instances, inits, histVars, clock, pc, active,
                 previous_window, previous_app, previous_exe, previous_user,
                 start_time, end_time, usage, day_read, timestamp,
                 guard_read, raised, files, log_tail, toast_tail, pre,
                 dropped, polls, ticks, runs>>

InitNeo ==
  /\ pc = "n_calls"
  /\ InitState /\ IdleCsv /\ IdleSplit /\ IdleBaby /\ IdleWindow /\ IdleExtra

NextNeo == NeoCallCreates \/ NeoCallRaises \/ NeoCallReturns

SpecNeo == InitNeo /\ [][NextNeo]_vars

-----------------------------------------------------------------------------
(* Properties *)

\* positions of a poll after the foreground window was read
PollSteps == {"limit", "stamp", "guard", "end", "write", "reset"}
InPoll == pc \in PollSteps \cup {"sleep"}

Previous == <<previous_window, previous_app, previous_exe, previous_user>>
PrePrevious == <<pre.window, pre.app, pre.exe, pre.user>>

IsRow(line) == line # header

\* the rows the files hold now and did not hold when the poll began
Added ==
  { <<d, i>> \in Days \X (1..(2 * MaxPolls)) :
      /\ i <= Len(files[d].lines)
      /\ i > Len(pre.files[d].lines)
      /\ IsRow(files[d].lines[i]) }

AllRows ==
  { files[d].lines[i] : <<d, i>> \in
      { p \in Days \X (1..(2 * MaxPolls)) :
          p[2] <= Len(files[p[1]].lines) /\ IsRow(files[p[1]].lines[p[2]]) } }

\* C1: a poll that resolves the title previous_window already holds appends
\* no row and leaves start_time as it was
C1_NoOpOnSameWindow ==
  (InPoll /\ active[1] = pre.window)
    => (files = pre.files /\ start_time = pre.start_time)

C1_Witness ==
  /\ pc = "sleep" /\ polls >= 2
  /\ active[1] = "A" /\ pre.window = "A"
  /\ now(clock) - start_time >= 1

\* a poll that found a real previous title replaced by another real title, at
\* least a second after start_time
SwitchPoll ==
  /\ Truthy(pre.window)
  /\ is_application(active[1])
  /\ active[1] # pre.window
  /\ day_read - pre.start_time >= 1

C3_RowsNeedSwitchAndDuration ==
  /\ \A r \in AllRows : r[6] - r[5] # 0
  /\ files # pre.files
       => (active[1] # pre.window /\ end_time - pre.start_time # 0)

C3_Witness ==
  /\ pc = "sleep" /\ Added # {}
  /\ polls >= 2

\* C4: a poll that reads "Task Switching" appends no row and changes none of
\* previous_window, previous_app, previous_exe, previous_user, start_time
C4_TaskSwitchingInvisible ==
  (InPoll /\ active[1] = "Task Switching")
    => /\ files = pre.files
       /\ Previous = PrePrevious
       /\ start_time = pre.start_time

C4_Witness ==
  /\ pc = "sleep" /\ active[1] = "Task Switching"
  /\ previous_window = "A"
  /\ now(clock) - start_time >= 1

\* C5: a poll whose foreground process is gone before the first query appends
\* no row and changes none of previous_*, start_time
C5_DeadPidIsNoWindow ==
  (InPoll /\ pre.exit = 1)
    => /\ active = <<None, None, None, None>>
       /\ files = pre.files
       /\ Previous = PrePrevious
       /\ start_time = pre.start_time

C5_Witness ==
  /\ pc = "sleep" /\ pre.exit = 1
  /\ previous_window = "A"
  /\ now(clock) - start_time >= 1

\* the day a poll reading the clock at second r should name its file for
ExpectedDay(r) ==
  IF strftime_tod(r) >= DAY_LIMIT THEN strftime_date(r) + 1
  ELSE strftime_date(r)

\* the clock read of line 60 / 63
stamp_read == IF past_day_limit(day_read) THEN timestamp - SecsPerDay
              ELSE timestamp

\* C6: the file of a poll is named for tomorrow when the time of day the poll
\* read is at or after 23:59:59 and for today otherwise (for either of the
\* two clock reads the poll makes for it)
C6_DayRolloverFilename ==
  pc \in {"guard", "end", "write", "reset", "sleep"}
    => file \in {ExpectedDay(day_read), ExpectedDay(stamp_read)}

\* C7: every row is in the file named for the date of its stopped timestamp
C7_RowsInFileOfStoppedDate ==
  \A d \in Days : \A i \in 1..Len(files[d].lines) :
    IsRow(files[d].lines[i]) => strftime_date(files[d].lines[i][6]) = d

\* what the header-once property asks of a file after n successful appends
HeaderOnce(f, n) ==
  n > 0 =>
    /\ isfile(f)
    /\ f.lines[1] = header
    /\ Cardinality({i \in 1..Len(f.lines) : f.lines[i] = header}) = 1
    /\ Cardinality({i \in 1..Len(f.lines) : IsRow(f.lines[i])}) = n

\* C8: after any appends to a path that was missing or empty the file has
\* one header line, its first, and as many rows as appends that succeeded
C8_HeaderOnce ==
  /\ HeaderOnce(csv_mle, appends_mle)
  /\ HeaderOnce(csv_xai, appends_xai)

C8_Witness ==
  /\ appends_mle >= 2 /\ appends_xai >= 2 /\ denials >= 1
  /\ Len(csv_mle.lines) = appends_mle + 1
  /\ Len(csv_xai.lines) = appends_xai + 1

\* C9: a denied append keeps the monitor in its inner loop: no row is added,
\* the log and the toast carry the error, start_time is read again, previous_*
\* take the window just read, and the lost interval is in no file later
C9_DeniedAppendIsDropped ==
  /\ raised = "PermissionError" => pc \in {"reset", "sleep", "poll"}
  /\ (pc = "sleep" /\ raised = "PermissionError")
       => /\ files = pre.files
          /\ log_tail = "File accessed by another application."
          /\ toast_tail = "File accessed by another application."
          /\ end_time <= start_time /\ start_time <= now(clock)
          /\ Previous = active
  /\ \A r \in AllRows : <<r[1], r[5]>> \notin dropped

C9_Witness ==
  /\ pc = "sleep" /\ raised = "PermissionError"
  /\ pre.window = "A" /\ previous_window = "B"
  /\ dropped # {}

\* C10: hours, mins, secs of split_time_spent(d) have mins and secs within
\* 0..59 and sum back to d
C10_SplitSumsBack ==
  split # NotSplit
    => /\ 0 <= split[3] /\ split[3] <= 59
       /\ 0 <= split[4] /\ split[4] <= 59
       /\ split[2] * 3600 + split[3] * 60 + split[4] = duration

C10_Witness ==
  /\ split # NotSplit
  /\ duration >= SecsPerDay + 3600
  /\ split[3] = 59 /\ split[4] = 59

RestartStep ==
  /\ pc = "start" /\ pc' = "poll"
  /\ log_tail = "Restarting application monitoring service."

\* C12: the restart after an unclassified exception leaves previous_window,
\* previous_app, previous_exe, previous_user at None and start_time at the
\* restart time
C12_RestartResetsState ==
  [][RestartStep
       => /\ Previous' = <<None, None, None, None>>
          /\ start_time' = now(clock)]_vars

\* the steps the tracker's own thread takes: every statement of either
\* daemon but the passing of time and the delivery of an interrupt
MonStep ==
  \/ Activate \/ PollReturns \/ PollRaises \/ ReadLimit \/ Stamp \/ Guard
  \/ EndTime \/ WriteOk \/ WriteDenied \/ WriteFails \/ Reset \/ Sleep
  \/ Backoff

BabyStep ==
  \/ BabyActivate \/ BabyPollReturns \/ BabyPollRaises \/ BabyReadLimit
  \/ BabyStamp \/ BabyGuard \/ BabyEndTime \/ BabyWriteOk \/ BabyWriteDenied
  \/ BabyWriteFails \/ BabyReset \/ BabySleep \/ BabyCrashBackoff
  \/ BabyBackoff

\* a running thread takes its next statement: sleeps end, calls return or
\* raise
\* the daemons' steps and the interrupts; whole seconds only
NextLive == MonStep \/ Interrupt \/ BabyStep \/ BabyInterrupt

SpecLive ==
  /\ InitTrackers /\ [][NextLive]_vars
  /\ WF_vars(MonStep) /\ WF_vars(BabyStep)

\* an exception other than an interrupt has reached the outer try
Excepted == pc \in {"except", "b_except", "b_denied"}

\* C13: only an interrupt ends the daemon, and after any other exception
\* reaches the outer try the tracker polls the foreground window again
\* (while the run may still activate and poll), unless an interrupt comes
\* first
C13_ExceptionLeadsToPoll ==
  /\ [](pc = "b_exited" => raised = "KeyboardInterrupt")
  /\ \A n \in 0..(MaxPolls - 1) :
       (Excepted /\ polls = n /\ runs < MaxRuns)
         ~> (polls > n \/ raised = "KeyboardInterrupt")

C13_Witness ==
  /\ pc \in {"limit", "b_limit"}
  /\ runs = 2 /\ polls >= 2
  /\ raised = None
  /\ log_tail \in {"Application monitoring service started.",
                   "Baby Monitor Protocol activated."}
  /\ clock >= 2 * SecsPerDay + 2 * EXCEPTION_TIMER - 2 * Before

\* C14: once an interrupt is delivered the daemon is gone: its position
\* never changes again and no further poll is made
C14_InterruptEndsPolling ==
  [][raised = "KeyboardInterrupt" => (pc' = pc /\ polls' = polls)]_vars

\* C15: handling an interrupt appends nothing to any file, and the interval
\* in flight is dropped: a daemon that goes on after the interrupt starts a
\* new interval from a fresh clock read
C15_InterruptAppendsNothing ==
  /\ [][raised' = "KeyboardInterrupt" => files' = files]_vars
  /\ [][(raised = "KeyboardInterrupt" /\ pc' # pc)
          => (files' = files /\ start_time' = now(clock))]_vars

C15_Witness ==
  /\ raised = "KeyboardInterrupt"
  /\ pc = "start"
  /\ previous_window = "A"
  /\ now(clock) - start_time >= 1
  /\ AllRows = {}

\* C16 as claimed: after every poll whose title is not "Task Switching"
\* previous_window, previous_app, previous_exe, previous_user are the values
\* that poll observed
C16_PreviousFollowsEveryPoll ==
  (pc = "sleep" /\ active[1] # "Task Switching") => Previous = active

\* C16 amended: after a poll that went through, previous_* are the values it
\* observed when its title is non-empty and not "Task Switching", with or
\* without a switch or a row; they are what they were when the title is
\* "Task Switching", empty or None
C16_PreviousFollowsApplications ==
  pc = "sleep"
    => IF is_application(active[1]) THEN Previous = active
       ELSE Previous = PrePrevious

C16_Witness ==
  /\ pc = "sleep"
  /\ pre.window = "A" /\ active[1] = "B"
  /\ files = pre.files
  /\ Previous = <<"B", None, "b.exe", "xa">>

\* C17: a lookup that fails on a foreground process that is there raises
\* nothing into the polling loop: no psutil.AccessDenied is ever caught by
\* the outer try of either daemon
C17_LookupFailureStaysInside ==
  ~(raised = "AccessDenied" /\ pc \in {"except", "b_denied", "b_except"})

\* C18: when the friendly-name lookup of a poll fails, the application name
\* that poll observes is "unknown" or None, never a name left by an earlier
\* lookup
C18_FailedLookupIsUnresolved ==
  (pc = "b_limit" /\ lookup \in {"NameError", "error"})
    => active[2] \in {"unknown", None}

\* C19: get_active_window returns four None, or a tuple whose process was
\* there for every lookup (title, executable and user of the window), and
\* never raises for a process that went away during the call
C19_AllOrNothing ==
  /\ pc = "w61"
       => \/ active = <<None, None, None, None>>
          \/ /\ active[1] = window[1]
             /\ active[3] = window[3]
             /\ active[4] = window[4]
  /\ ~(pc = "w_raised" /\ raised = "NoSuchProcess")

\* C20: the next interval starts at the stopped value of the interval just
\* closed: when the poll that appended a row with stopped = end_time goes
\* on, start_time is that end_time, so the next row's started is this row's
\* stopped
C20_StartIsPreviousStop ==
  [][(pc = "reset" /\ raised = None /\ pc' = "sleep")
       => start_time' = end_time]_vars

\* C21: no row has a stopped timestamp whose time of day is 23:59:59
C21_NoRowStopsAtDayLimit ==
  \A r \in AllRows : strftime_tod(r[6]) # DAY_LIMIT

\* C22: no row of either tracker has an empty activity field (None is
\* written as the empty string)
C22_NoBlankActivity ==
  \A r \in AllRows : r[1] # ""

\* C23: any two consecutive calls of the weather API are at least 30
\* minutes apart
C23_CallsHalfHourApart ==
  prev_attempt # Unset => last_attempt - prev_attempt >= 30 * 60

\* C24: every row the tracker service appends goes to the file named for
\* the calendar date of the moment it is written
C24_RowInFileOfItsDate ==
  [][\A d \in Days :
       (pc = "t_write" /\ files'[d] # files[d])
         => d = strftime_date(now(clock))]_vars

\* C25 as stated: all calls of a class return the same instance and __init__
\* runs only for the first call of the class
C25_InitRunsForFirstCallOnly ==
  /\ \A p, q \in returned : p[1] = q[1] => p[3] = q[3]
  /\ \A cls \in Classes : inits[cls] <= 1

\* C25, amended: all calls of a class that return, return the same instance;
\* once a call has returned, __init__ never runs for the class again and the
\* instance keeps the state the creating call gave it
C25_SingletonOnceMade ==
  [][/\ \A p, q \in returned' : p[1] = q[1] => p[3] = q[3]
     /\ \A cls \in Classes :
          has_instance(cls) => /\ inits'[cls] = inits[cls]
                               /\ instances'[cls] = instances[cls]]_vars

\* a later call with other arguments got the instance of the first
C25_Witness ==
  \E p \in returned : p[3].state # p[2] /\ instances[p[1]] = p[3]

\* C26: when the application monitor has appended a row, every poll since
\* the row's started time that resolved an application title observed the
\* row's activity title
C26_RowCoversOneTitle ==
  (pc = "reset" /\ raised = None) => \A t \in seen : t = previous_window

\* where the rows of the files are
RowPositions(fs) ==
  { p \in Days \X (1..(2 * MaxPolls)) :
      p[2] <= Len(fs[p[1]].lines) /\ IsRow(fs[p[1]].lines[p[2]]) }

\* C27: a row the application monitor appends has stopped strictly later
\* than started, and its started is not earlier than the stopped of any row
\* appended before it, in whatever file
C27_RowsOrderedAndDisjoint ==
  [][\A p \in RowPositions(files') \ RowPositions(files) :
       LET r == files'[p[1]].lines[p[2]]
       IN /\ r[6] > r[5]
          /\ \A q \in RowPositions(files) :
               r[5] >= files[q[1]].lines[q[2]][6]]_vars

\* two rows have been appended, to two files
C27_Witness ==
  /\ \E p, q \in RowPositions(files) : p[1] # q[1]
  /\ pc = "sleep"

\* every line of f is in g, unchanged and in the same position
Kept(f, g) ==
  /\ Len(g.lines) >= Len(f.lines)
  /\ \A i \in 1..Len(f.lines) : g.lines[i] = f.lines[i]

\* C28: a call of update_data or of write_data keeps every line the file
\* held, unchanged and in its position, and a call that leaves the file as
\* the truncating write_header does was made on a missing or empty file
C28_AppendOnly ==
  [][/\ Kept(csv_mle, csv_mle') /\ Kept(csv_xai, csv_xai')
     /\ \A row \in CsvRows :
          (appends_mle' # appends_mle
             /\ csv_mle' = write_header(csv_mle, header, row))
            => getsize(csv_mle) = 0]_vars

\* both writers have appended to a file that held lines
C28_Witness ==
  /\ appends_mle >= 2 /\ Len(csv_mle.lines) = appends_mle + 1
  /\ appends_xai >= 2 /\ Len(csv_xai.lines) = appends_xai + 1

\* the rows BabyMonitorProtocol has written
BabyRows == { r \in AllRows : Len(r) = Len(xai_header) /\ r # xai_header }

\* C29: a row of BabyMonitorProtocol has a url and a domain only if its app
\* is Google Chrome
C29_UrlOnlyForChrome ==
  \A r \in BabyRows : (r[3] # "" \/ r[4] # "") => r[2] = "Google Chrome"

\* C30: _time_spent returns, without raising, the hours, mins and secs that
\* split_time_spent gives for the same duration
C30_TimeSpentIsSplit ==
  time_spent # NotSpent
    => /\ ~time_spent.raised
       /\ \A i \in 2..4 : time_spent.value[i] = split_time_spent(duration)[i]

====
